---- MODULE Spec2Model ----
(***************************************************************************)
(* EchoVerse game engine (src/src/components/GameEngine.tsx).              *)
(*                                                                         *)
(* The engine's GameState, the pending level-advance timers, the ambient   *)
(* loop and the last status and visual snapshots handed to the page are    *)
(* the state.  One step is either one processCommand call, run to          *)
(* completion, or the firing of one scheduled setTimeout callback of       *)
(* completeLevel.                                                          *)
(*                                                                         *)
(* The requests a handler sends to the narration and audio sinks and to    *)
(* the log (speak, playSound, ...) are collected in the field out of the   *)
(* record the handlers return; they are what the call emitted, and no      *)
(* later step reads them.  The same holds for GameEngine.lastCommand,      *)
(* which the code assigns and never reads.                                 *)
(*                                                                         *)
(* Conventions                                                             *)
(*  - a THREE.Vector3 is the record [x, z]; y is 0 everywhere in the game. *)
(*  - volumes are in tenths (0.5 is 5, the default volume 1 is 10).        *)
(*  - radii are doubled (1.5 is 3) and compared on squared distances, which*)
(*    is exact for the integer coordinates the unit step produces.         *)
(*  - JavaScript null and undefined are the records Null and Undefined;    *)
(*    Truthy tells them from objects.                                      *)
(*  - the handler operators take and return a record st holding every      *)
(*    mutable field, so that nested calls compose as in the source.        *)
(***************************************************************************)
EXTENDS Integers, Sequences, FiniteSets, TLC

(* ------------------------------ bounds --------------------------------- *)

\* at most this many level-advance callbacks are pending at once
MaxTimers == 1

\* lives is not followed below -MaxLifeDeficit
MaxLifeDeficit == 1

\* without an environment there is no boundary: |x|, |z| are followed up to this
MaxCoord == 6

\* longest objectives list given to a level in the specification over lists
MaxObjectives == 2

\* score is followed up to this in the specification over lists
MaxListScore == 700

(* ------------------------------ values --------------------------------- *)

Vec(px, pz) == [x |-> px, z |-> pz]

Null == [js |-> "null"]

Undefined == [js |-> "undefined"]

Truthy(v) == "js" \notin DOMAIN v

Abs(n) == IF n < 0 THEN -n ELSE n

\* the squared value of THREE.Vector3.distanceTo
DistSq(p, q) == (p.x - q.x) * (p.x - q.x) + (p.z - q.z) * (p.z - q.z)

\* distanceTo(p, q) < r, with r given doubled
WithinX2Strict(p, q, r2) == 4 * DistSq(p, q) < r2 * r2

\* distanceTo(p, q) <= r, with r given doubled
WithinX2(p, q, r2) == 4 * DistSq(p, q) <= r2 * r2

\* a splice that removes nothing
SpliceNothing(s, index) == s

\* Array.prototype.splice(index, 1)
Splice(s, index) == [k \in 1..(Len(s) - 1) |-> IF k < index THEN s[k] ELSE s[k + 1]]

(* ------------------------------ catalog -------------------------------- *)

environments ==
  << [ id |-> 1,
       name |-> "The Echoing Forest",
       size |-> Vec(10, 10),
       soundscape |-> "forest",
       objectives |-> << [ type |-> "find", target |-> "crystal",
                           position |-> Vec(3, 4),
                           description |-> "A magical crystal that hums with energy" ] >>,
       hazards |-> << [ type |-> "pit",
                        position |-> Vec(-2, 2),
                        description |-> "A deep pit with echoing depths" ] >> ],
     [ id |-> 2,
       name |-> "The Whispering Caves",
       size |-> Vec(8, 12),
       soundscape |-> "cave",
       objectives |-> << [ type |-> "escape", target |-> "exit",
                           position |-> Vec(0, 6),
                           description |-> "The cave exit with fresh air flowing through" ] >>,
       hazards |-> << [ type |-> "rockfall",
                        position |-> Vec(2, -3),
                        description |-> "Unstable rocks that could fall" ] >> ] >>

PracticeRoom == [ name |-> "Practice Room", size |-> Vec(4, 4) ]

\* environment?.hazards || []
HazardsOf(env) == IF "hazards" \in DOMAIN env THEN env.hazards ELSE << >>

moveDistance == 1

interactionDistanceX2 == 3

objectiveHintDistanceX2 == 6

hazardWarnDistanceX2 == 4

awarenessDistanceX2 == 8

Vocabulary ==
  { "start game", "go left", "go right", "go forward", "go back", "look around",
    "help", "repeat", "toggle mode", "reset game", "stop game" }

\* the command strings the model feeds to processCommand: the vocabulary and
\* "toggle voice", which the keyboard listener sends for KeyV
Commands == Vocabulary \cup { "toggle voice" }

\* the exemption list with stop game added
AlwaysAllowedWithStop == { "start game", "help", "toggle mode", "reset game", "stop game" }

\* the event.code values the model presses: the ten the keydown listener
\* handles and one it does not
KeyCodes ==
  { "KeyS", "KeyM", "KeyV", "KeyR", "ArrowLeft", "ArrowRight", "ArrowUp", "ArrowDown",
    "KeyH", "Space", "KeyX" }

\* the keydown listener of VoiceController.setupKeyboardListeners: the
\* commands it passes to onCommand for a key, in order
keydown(code) ==
  CASE code = "KeyS" -> << "start game" >>
    [] code = "KeyM" -> << "toggle mode" >>
    [] code = "KeyV" -> << "toggle voice" >>
    [] code = "KeyR" -> << "reset game" >>
    [] code = "ArrowLeft" -> << "go left" >>
    [] code = "ArrowRight" -> << "go right" >>
    [] code = "ArrowUp" -> << "go forward" >>
    [] code = "ArrowDown" -> << "go back" >>
    [] code = "KeyH" -> << "help" >>
    [] code = "Space" -> << "look around" >>
    [] OTHER -> << >>

AlwaysAllowed == { "start game", "help", "toggle mode", "reset game" }

(* ------------------------------ state ---------------------------------- *)

VARIABLES
  gameState,     \* GameEngine.gameState
  timers,        \* pending setTimeout callbacks of completeLevel, oldest first
  lastOp,        \* "init", "command", "timer" or "button": what the last step was
  fired,         \* the callback the last step fired, NoTimer after other steps
  threw,         \* the last step ended in an uncaught TypeError
  status,        \* payload of the last onStateChange call
  visual,        \* payload of the last onVisualUpdate call
  music,         \* ambient loop requested to play
  catalog,       \* GameEngine.environments, the objects initializeEnvironments built
  sharedWith,    \* index of the catalog entry whose objectives array is the very
                 \* array gameState.objectives, 0 when that is an array of its own
  page           \* Index: the page's gameState (isListening left out)

vars == << gameState, timers, lastOp, fired, threw, status, visual, music, catalog, sharedWith, page >>

NoTimer == [from |-> 0, since |-> "never"]

NoOut == [ spoken |-> << >>, sounds |-> << >>, positional |-> << >>,
           created |-> << >>, listener |-> << >>, logs |-> << >> ]

InitialGameState ==
  [ mode |-> "practice",
    isPlaying |-> FALSE,
    score |-> 0,
    lives |-> 3,
    currentLevel |-> 1,
    playerPosition |-> Vec(0, 0),
    playerDirection |-> Vec(0, 1),
    environment |-> Null,
    objectives |-> << >>,
    inventory |-> << >> ]

\* Index: useState of gameState
InitialPageState ==
  [ isPlaying |-> FALSE, mode |-> "practice", score |-> 0, lives |-> 3,
    currentLevel |-> 1, gameStarted |-> FALSE ]

\* Index: useState of visualState, the literal resetGame of the page sets again
InitialVisualState ==
  [ playerPosition |-> Vec(0, 0), environment |-> Null,
    objectives |-> << >>, hazards |-> << >>, live |-> FALSE ]

StatusOf(gs) ==
  [ mode |-> gs.mode, isPlaying |-> gs.isPlaying, score |-> gs.score,
    lives |-> gs.lives, currentLevel |-> gs.currentLevel ]

\* The record threaded through the handlers.
Pack ==
  [ gs |-> gameState, timers |-> timers, lastCommand |-> "", threw |-> FALSE,
    out |-> NoOut, status |-> status, visual |-> visual, music |-> music,
    catalog |-> catalog, sharedWith |-> sharedWith, page |-> page ]

(* --------------------------- collaborators ----------------------------- *)

speak(st, n) == [st EXCEPT !.out.spoken = Append(@, n)]

onLog(st, m) == [st EXCEPT !.out.logs = Append(@, m)]

playSound(st, name, volume) ==
  [st EXCEPT !.out.sounds = Append(@, [name |-> name, volume |-> volume])]

playPositionalSound(st, kind, index, volume) ==
  [st EXCEPT !.out.positional = Append(@, [kind |-> kind, index |-> index, volume |-> volume])]

createPositionalSound(st, kind, index, position) ==
  [st EXCEPT !.out.created = Append(@, [kind |-> kind, index |-> index, position |-> position])]

setListenerPosition(st, position, forward) ==
  [st EXCEPT !.out.listener = Append(@, [position |-> position, forward |-> forward])]

startBackgroundMusic(st) == [st EXCEPT !.music = TRUE]

stopBackgroundMusic(st) == [st EXCEPT !.music = FALSE]

\* the engine's onStateChange is Index.handleGameStateChange, which merges the
\* payload into the page's gameState
handleGameStateChange(st, newState) ==
  [st EXCEPT !.status = newState,
             !.page = [f \in DOMAIN @ |-> IF f \in DOMAIN newState THEN newState[f] ELSE @[f]]]

updateState(st) == handleGameStateChange(st, StatusOf(st.gs))

\* The payload holds the engine's objectives array itself (live), not a copy.
updateVisualState(st) ==
  [st EXCEPT !.visual =
     [ playerPosition |-> st.gs.playerPosition,
       environment |-> st.gs.environment,
       objectives |-> st.gs.objectives,
       hazards |-> IF Truthy(st.gs.environment) THEN HazardsOf(st.gs.environment) ELSE << >>,
       live |-> TRUE ]]

\* gameState.objectives is bound to a new array: a payload holding the old
\* array keeps its contents from now on.
NewObjectivesArray(st, objs) ==
  [st EXCEPT !.gs.objectives = objs, !.visual.live = FALSE, !.sharedWith = 0]

\* Every pending callback remembers the last of start, stop and reset that ran
\* since it was scheduled ("none" at first).  This is bookkeeping for stating
\* the claims about superseded callbacks; the code keeps no such mark and no
\* handler reads it.
Supersede(st, by) ==
  [st EXCEPT !.timers = [k \in 1..Len(st.timers) |-> [st.timers[k] EXCEPT !.since = by]]]

Init ==
  /\ gameState = InitialGameState
  /\ timers = << >>
  /\ lastOp = "init"
  /\ fired = NoTimer
  /\ threw = FALSE
  /\ status = StatusOf(InitialGameState)
  /\ visual = InitialVisualState
  /\ music = FALSE
  /\ catalog = environments
  /\ sharedWith = 0
  /\ page = InitialPageState

(* ------------------------------ handlers ------------------------------- *)

\* stopGame that also clears the score
stopGameClearsScore(st) ==
  updateState(stopBackgroundMusic(Supersede([st EXCEPT !.gs.isPlaying = FALSE, !.gs.score = 0], "stop")))

\* GameEngine.stopGame
stopGame(st) ==
  updateState(stopBackgroundMusic(Supersede([st EXCEPT !.gs.isPlaying = FALSE], "stop")))

\* gameOver without the call of stopGame
gameOverNoStop(st) ==
  speak(st, [text |-> "Game Over!", score |-> st.gs.score])

\* GameEngine.gameOver
gameOver(st) ==
  stopGame(speak(st, [text |-> "Game Over!", score |-> st.gs.score]))

\* GameEngine.gameWon
gameWon(st) ==
  stopGame(speak(st, [text |-> "You've completed all levels!", score |-> st.gs.score]))

RECURSIVE createAll(_, _, _, _)
\* items.forEach((item, index) => createPositionalSound(`${kind}_${index}`, item.position)),
\* from the 0-based index k on
createAll(st, kind, items, k) ==
  IF k >= Len(items) THEN st
  ELSE createAll(createPositionalSound(st, kind, k, items[k + 1].position), kind, items, k + 1)

\* GameEngine.setupSpatialAudio
setupSpatialAudio(st) ==
  IF ~Truthy(st.gs.environment) THEN st
  ELSE createAll(createAll(st, "objective", st.gs.objectives, 0),
                 "hazard", HazardsOf(st.gs.environment), 0)

\* startAdventureMode without the spread: gameState.objectives is bound to the
\* catalog entry's own array
enterLevelSharedArray(st, level) ==
  LET environment == IF level \in 1..Len(st.catalog) THEN st.catalog[level] ELSE Undefined
      s1 == [st EXCEPT !.gs.environment = environment]
  IN IF ~Truthy(environment) THEN [s1 EXCEPT !.threw = TRUE]
     ELSE LET s2 == [s1 EXCEPT !.gs.objectives = environment.objectives,
                               !.visual.live = FALSE, !.sharedWith = level]
          IN IF Len(s2.gs.objectives) = 0 THEN [s2 EXCEPT !.threw = TRUE]
             ELSE setupSpatialAudio(
                    onLog(speak(s2, [ text |-> "Welcome to Adventure Mode!",
                                      environment |-> environment.name,
                                      objective |-> s2.gs.objectives[1].description ]),
                          [text |-> "Started Adventure Mode", environment |-> environment.name]))

\* The body of startAdventureMode for the catalog index level - 1.
\* environments[level - 1] is undefined outside the catalog; it is stored
\* before `environment.objectives` throws.  [...environment.objectives] is a
\* new array with the entry's elements.
enterLevel(st, level) ==
  LET environment == IF level \in 1..Len(st.catalog) THEN st.catalog[level] ELSE Undefined
      s1 == [st EXCEPT !.gs.environment = environment]
  IN IF ~Truthy(environment) THEN [s1 EXCEPT !.threw = TRUE]
     ELSE LET s2 == NewObjectivesArray(s1, environment.objectives)
          IN IF Len(s2.gs.objectives) = 0 THEN [s2 EXCEPT !.threw = TRUE]
             ELSE setupSpatialAudio(
                    onLog(speak(s2, [ text |-> "Welcome to Adventure Mode!",
                                      environment |-> environment.name,
                                      objective |-> s2.gs.objectives[1].description ]),
                          [text |-> "Started Adventure Mode", environment |-> environment.name]))

\* startAdventureMode that always enters the first catalog entry
startAdventureModeFirstLevel(st) == enterLevel(st, 1)

\* GameEngine.startAdventureMode
startAdventureMode(st) == enterLevel(st, st.gs.currentLevel)

\* GameEngine.startPracticeMode: the objectives are left as they are
startPracticeMode(st) ==
  LET s1 == onLog(speak(st, [text |-> "Welcome to Practice Mode!"]),
                  [text |-> "Started Practice Mode"])
  IN [s1 EXCEPT !.gs.environment = PracticeRoom]

\* GameEngine.startGame
startGame(st, mode) ==
  LET s1 == [Supersede(st, "start") EXCEPT !.gs.mode = mode,
                                           !.gs.isPlaying = TRUE,
                                           !.gs.playerPosition = Vec(0, 0),
                                           !.gs.playerDirection = Vec(0, 1)]
      s2 == IF mode = "practice" THEN startPracticeMode(s1) ELSE startAdventureMode(s1)
  IN IF s2.threw THEN s2
     ELSE startBackgroundMusic(updateVisualState(updateState(s2)))

\* completeLevel that compares currentLevel < environments.length
completeLevelStrictBound(st) ==
  LET s1 == speak(playSound(st, "success", 10),
                  [text |-> "Level completed!", level |-> st.gs.currentLevel])
      s2 == [s1 EXCEPT !.gs.score = @ + 500, !.gs.currentLevel = @ + 1]
      s3 == IF s2.gs.currentLevel < Len(environments)
            THEN [s2 EXCEPT !.timers = Append(@, [from |-> st.gs.currentLevel, since |-> "none"])]
            ELSE gameWon(s2)
  IN updateState(s3)

\* completeLevel that leaves currentLevel as it is
completeLevelNoAdvance(st) ==
  LET s1 == speak(playSound(st, "success", 10),
                  [text |-> "Level completed!", level |-> st.gs.currentLevel])
      s2 == [s1 EXCEPT !.gs.score = @ + 500]
      s3 == IF s2.gs.currentLevel <= Len(environments)
            THEN [s2 EXCEPT !.timers = Append(@, [from |-> st.gs.currentLevel, since |-> "none"])]
            ELSE gameWon(s2)
  IN updateState(s3)

\* GameEngine.completeLevel
completeLevel(st) ==
  LET s1 == speak(playSound(st, "success", 10),
                  [text |-> "Level completed!", level |-> st.gs.currentLevel])
      s2 == [s1 EXCEPT !.gs.score = @ + 500, !.gs.currentLevel = @ + 1]
      s3 == IF s2.gs.currentLevel <= Len(environments)
            THEN [s2 EXCEPT !.timers = Append(@, [from |-> st.gs.currentLevel, since |-> "none"])]
            ELSE gameWon(s2)
  IN updateState(s3)

\* this.gameState.objectives.splice(index, 1), index 0-based: the array is
\* changed in place, so a visual payload holding it changes with it, and so
\* does a catalog entry whose array it is
spliceObjectives(st, index) ==
  LET objs == Splice(st.gs.objectives, index + 1)
      s1 == [st EXCEPT !.gs.objectives = objs,
                       !.visual.objectives = IF st.visual.live THEN objs ELSE @]
  IN IF st.sharedWith = 0 THEN s1
     ELSE [s1 EXCEPT !.catalog[st.sharedWith].objectives = objs]

\* GameEngine.interactWithObjective
interactWithObjective(st, objective, index) ==
  LET s1 == speak(playSound(st, "success", 10),
                  [text |-> "Congratulations! You found", description |-> objective.description])
      s2 == spliceObjectives([s1 EXCEPT !.gs.score = @ + 100], index)
      s3 == IF Len(s2.gs.objectives) = 0 THEN completeLevel(s2) ELSE s2
  IN updateState(onLog(s3, [text |-> "Found", description |-> objective.description]))

\* interactWithHazard that leaves the player where the hazard was met
interactWithHazardNoReturn(st, hazard) ==
  LET s1 == speak(playSound(st, "danger", 10),
                  [text |-> "Oh no! You encountered", description |-> hazard.description])
      s2 == [s1 EXCEPT !.gs.lives = @ - 1]
      s3 == IF s2.gs.lives <= 0 THEN gameOver(s2)
            ELSE speak(s2, [text |-> "lives remaining", lives |-> s2.gs.lives])
  IN updateState(onLog(s3, [text |-> "Hazard encountered", description |-> hazard.description]))

\* GameEngine.interactWithHazard
interactWithHazard(st, hazard) ==
  LET s1 == speak(playSound(st, "danger", 10),
                  [text |-> "Oh no! You encountered", description |-> hazard.description])
      s2 == [s1 EXCEPT !.gs.lives = @ - 1]
      s3 == IF s2.gs.lives <= 0 THEN gameOver(s2)
            ELSE speak([s2 EXCEPT !.gs.playerPosition = Vec(0, 0)],
                       [text |-> "lives remaining", lives |-> s2.gs.lives])
  IN updateState(onLog(s3, [text |-> "Hazard encountered", description |-> hazard.description]))

RECURSIVE objectivesForEach(_, _, _)
\* this.gameState.objectives.forEach(...) of checkForInteractions from the
\* 0-based index k on; len is the length when forEach was called, and an
\* index that a splice has removed from the array is not visited
objectivesForEach(st, k, len) ==
  IF k >= len THEN st
  ELSE IF k >= Len(st.gs.objectives) THEN objectivesForEach(st, k + 1, len)
  ELSE LET objective == st.gs.objectives[k + 1]
           s1 == IF WithinX2(st.gs.playerPosition, objective.position, interactionDistanceX2)
                 THEN interactWithObjective(st, objective, k)
                 ELSE IF WithinX2(st.gs.playerPosition, objective.position, objectiveHintDistanceX2)
                 THEN playPositionalSound(st, "objective", k, 3)
                 ELSE st
       IN objectivesForEach(s1, k + 1, len)

RECURSIVE hazardsForEach(_, _, _)
\* environment?.hazards?.forEach(...) of checkForInteractions from the 0-based
\* index k on; playerPos is the live position vector
hazardsForEach(st, hazards, k) ==
  IF k >= Len(hazards) THEN st
  ELSE LET hazard == hazards[k + 1]
           s1 == IF WithinX2(st.gs.playerPosition, hazard.position, interactionDistanceX2)
                 THEN interactWithHazard(st, hazard)
                 ELSE IF WithinX2(st.gs.playerPosition, hazard.position, hazardWarnDistanceX2)
                 THEN playPositionalSound(st, "hazard", k, 4)
                 ELSE st
       IN hazardsForEach(s1, hazards, k + 1)

\* GameEngine.checkForInteractions
checkForInteractions(st) ==
  LET s1 == objectivesForEach(st, 0, Len(st.gs.objectives))
  IN hazardsForEach(s1, IF Truthy(s1.gs.environment) THEN HazardsOf(s1.gs.environment) ELSE << >>, 0)

\* GameEngine.getMovementFeedback
getMovementFeedback(gs, direction) ==
  LET pos == gs.playerPosition
      env == gs.environment
      soundscape == IF Truthy(env) /\ "soundscape" \in DOMAIN env THEN env.soundscape ELSE "none"
  IN IF ~Truthy(env)
     THEN [text |-> "You moved. You are now at position", direction |-> direction,
           x |-> pos.x, z |-> pos.z]
     ELSE [text |-> "You moved.", direction |-> direction, soundscape |-> soundscape,
           far |-> IF soundscape = "forest" THEN Abs(pos.x) > 3 \/ Abs(pos.z) > 3
                   ELSE IF soundscape = "cave" THEN Abs(pos.x) > 2 \/ Abs(pos.z) > 4
                   ELSE FALSE]

\* the unit step with left and right exchanged
StepMirrored(pos, direction) ==
  CASE direction = "left" -> [pos EXCEPT !.x = @ + moveDistance]
    [] direction = "right" -> [pos EXCEPT !.x = @ - moveDistance]
    [] direction = "forward" -> [pos EXCEPT !.z = @ + moveDistance]
    [] direction = "back" -> [pos EXCEPT !.z = @ - moveDistance]
    [] OTHER -> pos

\* the position after the unit step of movePlayer
Step(pos, direction) ==
  CASE direction = "left" -> [pos EXCEPT !.x = @ - moveDistance]
    [] direction = "right" -> [pos EXCEPT !.x = @ + moveDistance]
    [] direction = "forward" -> [pos EXCEPT !.z = @ + moveDistance]
    [] direction = "back" -> [pos EXCEPT !.z = @ - moveDistance]
    [] OTHER -> pos

\* the boundary check against the full size instead of the half size
OutOfBoundsFullSize(pos, size) == Abs(pos.x) > size.x \/ Abs(pos.z) > size.z

\* Math.abs(pos.x) > halfSize.x || Math.abs(pos.z) > halfSize.z, halfSize = size * 0.5
OutOfBounds(pos, size) == 2 * Abs(pos.x) > size.x \/ 2 * Abs(pos.z) > size.z

\* GameEngine.movePlayer
movePlayer(st, direction) ==
  IF ~st.gs.isPlaying THEN st
  ELSE LET oldPosition == st.gs.playerPosition
           s1 == [st EXCEPT !.gs.playerPosition = Step(oldPosition, direction)]
       IN IF Truthy(s1.gs.environment) /\ OutOfBounds(s1.gs.playerPosition, s1.gs.environment.size)
          THEN playSound(speak([s1 EXCEPT !.gs.playerPosition = oldPosition],
                               [text |-> "You've reached the edge. You cannot go further in this direction."]),
                         "danger", 5)
          ELSE LET s2 == setListenerPosition(playSound(s1, "step", 7),
                                             s1.gs.playerPosition, s1.gs.playerDirection)
                   s3 == checkForInteractions(s2)
                   s4 == speak(s3, getMovementFeedback(s3.gs, direction))
               IN updateVisualState(updateState(s4))

\* GameEngine.lookAround
lookAround(st) ==
  IF ~st.gs.isPlaying THEN st
  ELSE LET env == st.gs.environment
           nearby == \E k \in 1..Len(st.gs.objectives) :
                       WithinX2(st.gs.playerPosition, st.gs.objectives[k].position,
                                awarenessDistanceX2)
           s1 == IF Truthy(env) /\ nearby THEN playSound(st, "echo", 5) ELSE st
       IN onLog(speak(s1, [text |-> "You listen carefully to your surroundings.",
                           environment |-> IF Truthy(env) THEN env.name ELSE "none",
                           nearby |-> Truthy(env) /\ nearby]),
                [text |-> "Examined surroundings"])

\* provideHelp that also puts the player at the origin
provideHelpAtOrigin(st) ==
  onLog(speak([st EXCEPT !.gs.playerPosition = Vec(0, 0)],
              [text |-> "Available commands:", x |-> 0, z |-> 0]),
        [text |-> "Provided help information"])

\* GameEngine.provideHelp
provideHelp(st) ==
  onLog(speak(st, [text |-> "Available commands:",
                   x |-> st.gs.playerPosition.x, z |-> st.gs.playerPosition.z]),
        [text |-> "Provided help information"])

\* VoiceController.lastSpeech: only VoiceController.speak assigns it, and the
\* engine speaks through AudioManager.speak
lastSpeech == ""

\* VoiceController.repeatLastSpeech
repeatLastSpeech(st) ==
  IF lastSpeech # "" THEN speak(st, [text |-> lastSpeech, interrupt |-> TRUE]) ELSE st

\* toggleMode without the refusal while Playing
toggleModeUnguarded(st) ==
  LET s1 == [st EXCEPT !.gs.mode = IF @ = "practice" THEN "adventure" ELSE "practice"]
  IN updateState(speak(s1, [text |-> "Switched mode.", mode |-> s1.gs.mode]))

\* GameEngine.toggleMode
toggleMode(st) ==
  IF st.gs.isPlaying
  THEN speak(st, [text |-> "Please stop the current game before changing modes."])
  ELSE LET s1 == [st EXCEPT !.gs.mode = IF @ = "practice" THEN "adventure" ELSE "practice"]
       IN updateState(speak(s1, [text |-> "Switched mode.", mode |-> s1.gs.mode]))

\* handleUnknownCommand without the log entry
handleUnknownCommandNoLog(st, command) ==
  speak(st, [text |-> "I didn't understand", command |-> command])

\* GameEngine.handleUnknownCommand
handleUnknownCommand(st, command) ==
  onLog(speak(st, [text |-> "I didn't understand", command |-> command]),
        [text |-> "Unknown command", command |-> command])

\* resetGame whose new gameState has the constructor's mode
resetGameDefaultMode(st) ==
  LET s1 == [Supersede(st, "reset") EXCEPT !.gs = InitialGameState,
                                           !.visual.live = FALSE,
                                           !.sharedWith = 0]
      s2 == onLog(speak(stopBackgroundMusic(s1), [text |-> "Game reset. Ready for a new adventure!"]),
                  [text |-> "Game reset"])
  IN updateVisualState(updateState(s2))

\* GameEngine.resetGame: gameState is replaced by a new object
resetGame(st) ==
  LET s1 == [Supersede(st, "reset") EXCEPT !.gs = [InitialGameState EXCEPT !.mode = st.gs.mode],
                                           !.visual.live = FALSE,
                                           !.sharedWith = 0]
      s2 == onLog(speak(stopBackgroundMusic(s1), [text |-> "Game reset. Ready for a new adventure!"]),
                  [text |-> "Game reset"])
  IN updateVisualState(updateState(s2))

\* GameEngine.processCommand
processCommand(st, command) ==
  LET s0 == onLog([st EXCEPT !.lastCommand = command],
                  [text |-> "Processing", command |-> command])
  IN IF ~s0.gs.isPlaying /\ command \notin AlwaysAllowed
     THEN speak(s0, [text |-> "Please start a game first."])
     ELSE CASE command = "start game" -> startGame(s0, s0.gs.mode)
            [] command = "go left" -> movePlayer(s0, "left")
            [] command = "go right" -> movePlayer(s0, "right")
            [] command = "go forward" -> movePlayer(s0, "forward")
            [] command = "go back" -> movePlayer(s0, "back")
            [] command = "look around" -> lookAround(s0)
            [] command = "help" -> provideHelp(s0)
            [] command = "repeat" -> repeatLastSpeech(s0)
            [] command = "toggle mode" -> toggleMode(s0)
            [] command = "reset game" -> resetGame(s0)
            [] command = "stop game" -> stopGame(s0)
            [] OTHER -> handleUnknownCommand(s0, command)

(* ------------------------------ actions -------------------------------- *)

\* what the bounds leave out: more pending callbacks, deeper negative lives,
\* positions further out in a session without environment
InBounds(st) ==
  /\ Len(st.timers) <= MaxTimers
  /\ st.gs.lives >= -MaxLifeDeficit
  /\ Abs(st.gs.playerPosition.x) <= MaxCoord
  /\ Abs(st.gs.playerPosition.z) <= MaxCoord

Commit(st) ==
  /\ InBounds(st)
  /\ gameState' = st.gs
  /\ timers' = st.timers
  /\ threw' = st.threw
  /\ status' = st.status
  /\ visual' = st.visual
  /\ music' = st.music
  /\ catalog' = st.catalog
  /\ sharedWith' = st.sharedWith
  /\ page' = st.page

\* what processCommand(command) does in the current state
Run(command) == processCommand(Pack, command)

\* what the oldest pending callback, () => this.startAdventureMode(), does in
\* the current state
Callback == startAdventureMode([Pack EXCEPT !.timers = Tail(timers)])

\* one processCommand call
ProcessCommand(command) ==
  /\ lastOp' = "command"
  /\ fired' = NoTimer
  /\ Commit(Run(command))

\* the oldest pending callback of completeLevel fires: () => this.startAdventureMode()
TimerFires ==
  /\ timers # << >>
  /\ lastOp' = "timer"
  /\ fired' = Head(timers)
  /\ Commit(Callback)

Next ==
  \/ \E command \in Commands : ProcessCommand(command)
  \/ TimerFires

Spec == Init /\ [][Next]_vars

\* the commands of the specification with fairness: session control and the
\* two moves that lead to the objectives
FairCommands ==
  { "toggle mode", "start game", "stop game", "reset game", "go right", "go forward" }

FairNext ==
  \/ \E command \in FairCommands : ProcessCommand(command)
  \/ TimerFires

\* the event loop runs every due callback
FairSpec == Init /\ [][FairNext]_vars /\ WF_vars(TimerFires)

(* ------------------------------ the page ------------------------------- *)

\* Index.startGame, the Start Game button (disabled while the page says
\* Playing); an exception of the engine leaves the page's update out
StartButton ==
  /\ ~page.isPlaying
  /\ lastOp' = "button"
  /\ fired' = NoTimer
  /\ LET r == startGame(Pack, page.mode)
     IN Commit(IF r.threw THEN r
               ELSE [r EXCEPT !.page.gameStarted = TRUE, !.page.isPlaying = TRUE])

\* Index.toggleMode, the Toggle Mode button (disabled while the page says
\* Playing): the engine is not called
ToggleButton ==
  /\ ~page.isPlaying
  /\ lastOp' = "button"
  /\ fired' = NoTimer
  /\ LET newMode == IF page.mode = "practice" THEN "adventure" ELSE "practice"
     IN Commit(speak([Pack EXCEPT !.page.mode = newMode],
                     [text |-> "Switched mode", mode |-> newMode]))

\* Index.resetGame, the Reset button
ResetButton ==
  /\ lastOp' = "button"
  /\ fired' = NoTimer
  /\ Commit([resetGame(Pack) EXCEPT !.page.gameStarted = FALSE,
                                    !.page.isPlaying = FALSE,
                                    !.page.score = 0,
                                    !.page.lives = 3,
                                    !.page.currentLevel = 1,
                                    !.visual = InitialVisualState])

\* the World Visualization card shows the map
ShowsMap == page.gameStarted /\ Truthy(visual.environment)

\* the commands the keyboard and the voice send in the specification of the page
PageCommands ==
  { "start game", "stop game", "reset game", "toggle mode", "go right", "go forward" }

\* Index.handleVoiceCommand hands a command of the keyboard or the voice to
\* processCommand
PageNext ==
  \/ \E command \in PageCommands : ProcessCommand(command)
  \/ StartButton
  \/ ToggleButton
  \/ ResetButton
  \/ TimerFires

\* the engine together with the page's buttons
PageSpec == Init /\ [][PageNext]_vars

(* --------------------------- voice commands ---------------------------- *)

\* the characters of the strings the normalizer looks into or looks for
chars ==
     "start" :> << "s", "t", "a", "r", "t" >>
  @@ "begin" :> << "b", "e", "g", "i", "n" >>
  @@ "play" :> << "p", "l", "a", "y" >>
  @@ "left" :> << "l", "e", "f", "t" >>
  @@ "right" :> << "r", "i", "g", "h", "t" >>
  @@ "forward" :> << "f", "o", "r", "w", "a", "r", "d" >>
  @@ "ahead" :> << "a", "h", "e", "a", "d" >>
  @@ "back" :> << "b", "a", "c", "k" >>
  @@ "backward" :> << "b", "a", "c", "k", "w", "a", "r", "d" >>
  @@ "behind" :> << "b", "e", "h", "i", "n", "d" >>
  @@ "look" :> << "l", "o", "o", "k" >>
  @@ "examine" :> << "e", "x", "a", "m", "i", "n", "e" >>
  @@ "check" :> << "c", "h", "e", "c", "k" >>
  @@ "help" :> << "h", "e", "l", "p" >>
  @@ "assist" :> << "a", "s", "s", "i", "s", "t" >>
  @@ "repeat" :> << "r", "e", "p", "e", "a", "t" >>
  @@ "again" :> << "a", "g", "a", "i", "n" >>
  @@ "stop" :> << "s", "t", "o", "p" >>
  @@ "quit" :> << "q", "u", "i", "t" >>
  @@ "reset" :> << "r", "e", "s", "e", "t" >>
  @@ "restart" :> << "r", "e", "s", "t", "a", "r", "t" >>
  @@ "go" :> << "g", "o" >>
  @@ "move" :> << "m", "o", "v", "e" >>
  @@ "walk" :> << "w", "a", "l", "k" >>
  @@ "restart game" :> << "r", "e", "s", "t", "a", "r", "t", " ", "g", "a", "m", "e" >>
  @@ "go left" :> << "g", "o", " ", "l", "e", "f", "t" >>
  @@ "look ahead" :> << "l", "o", "o", "k", " ", "a", "h", "e", "a", "d" >>
  @@ "walk forward" :> << "w", "a", "l", "k", " ", "f", "o", "r", "w", "a", "r", "d" >>
  @@ "go up" :> << "g", "o", " ", "u", "p" >>
  @@ "toggle mode" :> << "t", "o", "g", "g", "l", "e", " ", "m", "o", "d", "e" >>
  @@ "dance" :> << "d", "a", "n", "c", "e" >>
  @@ "help me" :> << "h", "e", "l", "p", " ", "m", "e" >>
  @@ "constructor" :> << "c", "o", "n", "s", "t", "r", "u", "c", "t", "o", "r" >>

\* commandMap of processVoiceCommand, in the order Object.entries lists it
commandMap ==
  << [key |-> "start", value |-> "start game"],
     [key |-> "begin", value |-> "start game"],
     [key |-> "play", value |-> "start game"],
     [key |-> "left", value |-> "go left"],
     [key |-> "right", value |-> "go right"],
     [key |-> "forward", value |-> "go forward"],
     [key |-> "ahead", value |-> "go forward"],
     [key |-> "back", value |-> "go back"],
     [key |-> "backward", value |-> "go back"],
     [key |-> "behind", value |-> "go back"],
     [key |-> "look", value |-> "look around"],
     [key |-> "examine", value |-> "look around"],
     [key |-> "check", value |-> "look around"],
     [key |-> "help", value |-> "help"],
     [key |-> "assist", value |-> "help"],
     [key |-> "repeat", value |-> "repeat"],
     [key |-> "again", value |-> "repeat"],
     [key |-> "stop", value |-> "stop game"],
     [key |-> "quit", value |-> "stop game"],
     [key |-> "reset", value |-> "reset game"],
     [key |-> "restart", value |-> "reset game"] >>

\* transcripts as recognition.onresult passes them on (lower case, trimmed)
Transcripts ==
  { "start", "restart game", "left", "go left", "look ahead", "walk forward", "go up",
    "move", "toggle mode", "stop", "reset", "dance", "help me", "constructor" }

\* String.prototype.includes
Includes(s, t) ==
  \E i \in 0..(Len(chars[s]) - Len(chars[t])) :
    SubSeq(chars[s], i + 1, i + Len(chars[t])) = chars[t]

\* names for which commandMap[name] is a property inherited from
\* Object.prototype, and what `${...}` makes of the function found there
InheritedProperties == { "constructor" }

ObjectFunction == "function Object() { [native code] }"

\* VoiceController.processVoiceCommand: the arguments of its onCommand calls,
\* in order
processVoiceCommand(command) ==
  LET direct == { k \in 1..Len(commandMap) : commandMap[k].key = command }
      partial == { k \in 1..Len(commandMap) : Includes(command, commandMap[k].key) }
      first == CHOOSE k \in partial : \A j \in partial : k <= j
  IN IF direct # {} THEN << commandMap[CHOOSE k \in direct : TRUE].value >>
     ELSE IF command \in InheritedProperties THEN << ObjectFunction >>
     ELSE IF partial # {} THEN << commandMap[first].value >>
     ELSE IF Includes(command, "go") \/ Includes(command, "move") \/ Includes(command, "walk")
     THEN IF Includes(command, "left") THEN << "go left" >>
          ELSE IF Includes(command, "right") THEN << "go right" >>
          ELSE IF Includes(command, "forward") \/ Includes(command, "ahead")
          THEN << "go forward" >>
          ELSE IF Includes(command, "back") \/ Includes(command, "backward")
          THEN << "go back" >>
          ELSE << >>
     ELSE << command >>

\* recognition.onresult for one transcript: Index.handleVoiceCommand hands every
\* delivered command to processCommand; a transcript for which nothing is
\* delivered is no step
Hear(transcript) ==
  /\ processVoiceCommand(transcript) # << >>
  /\ ProcessCommand(processVoiceCommand(transcript)[1])

VoiceNext == \E transcript \in Transcripts : Hear(transcript)

\* the engine driven by voice alone
VoiceSpec == Init /\ [][VoiceNext]_vars

\* Objective lists as input.  initializeEnvironments gives every level one
\* objective; checkForInteractions and interactWithObjective are written for
\* lists of any length.  In ListSpec level 1 of the catalog the engine is
\* constructed with holds a list of up to MaxObjectives objectives placed on
\* the spots below, three of them within reach of one another.
Spots == { Vec(1, 1), Vec(2, 1), Vec(1, 2), Vec(4, 4) }

ObjectiveNames == << "first", "second", "third", "fourth" >>

ObjectiveAt(n, position) ==
  [ type |-> "find", target |-> ObjectiveNames[n], position |-> position,
    description |-> ObjectiveNames[n] ]

\* the lists of n objectives on n different spots
ListsOfLength(n) ==
  { [k \in 1..n |-> ObjectiveAt(k, places[k])] :
      places \in { f \in [1..n -> Spots] : \A i, j \in 1..n : f[i] = f[j] => i = j } }

ObjectiveLists == UNION { ListsOfLength(n) : n \in 1..MaxObjectives }

ListInit ==
  /\ gameState = InitialGameState
  /\ timers = << >>
  /\ lastOp = "init"
  /\ fired = NoTimer
  /\ threw = FALSE
  /\ status = StatusOf(InitialGameState)
  /\ visual = InitialVisualState
  /\ music = FALSE
  /\ catalog \in { [environments EXCEPT ![1].objectives = objs] : objs \in ObjectiveLists }
  /\ sharedWith = 0
  /\ page = InitialPageState

\* the commands of the specification over lists: into adventure mode, start,
\* and the two moves that lead to the spots
ListCommands == { "toggle mode", "start game", "go right", "go forward" }

\* A list that a move leaves non-empty is refilled by the next start game, so
\* score has no upper limit here; it is followed up to MaxListScore.
ListNext ==
  \E command \in ListCommands :
    /\ ProcessCommand(command)
    /\ gameState'.score <= MaxListScore

ListSpec == ListInit /\ [][ListNext]_vars

TypeOK ==
  /\ gameState.mode \in {"practice", "adventure"}
  /\ gameState.isPlaying \in BOOLEAN
  /\ gameState.currentLevel \in 1..(Len(environments) + 1)
  /\ Len(timers) <= MaxTimers

(* ------------------------------- claims -------------------------------- *)

MoveCommands == { "go left", "go right", "go forward", "go back" }

DirectionOf(command) ==
  CASE command = "go left" -> "left"
    [] command = "go right" -> "right"
    [] command = "go forward" -> "forward"
    [] command = "go back" -> "back"

\* the session fields of reset's new gameState, mode aside
IdleDefaults(gs) ==
  /\ ~gs.isPlaying
  /\ gs.environment = Null
  /\ gs.objectives = << >>
  /\ gs.score = 0
  /\ gs.lives = 3
  /\ gs.currentLevel = 1

\* C1: whenever an environment is active, the player position is within its
\* half-extents on both axes, also right after the level-advance callback has
\* replaced the environment.
C1_PositionWithinHalfExtents ==
  Truthy(gameState.environment) =>
    ~OutOfBounds(gameState.playerPosition, gameState.environment.size)

\* C2: lives is always between 0 and 3.
C2_LivesInRange == gameState.lives \in 0..3

\* C3: between commands, lives = 0 implies that the session is not Playing.
C3_NoLivesNotPlaying == gameState.lives = 0 => ~gameState.isPlaying

\* C4: when reset game was the last of start, stop and reset to run since a
\* level-advance callback was scheduled, the firing of that callback leaves the
\* session Idle with the defaults (environment null, objectives empty, score 0,
\* lives 3, currentLevel 1).
C4_ResetCancelsAdvance ==
  [][(TimerFires /\ Head(timers).since = "reset") => IdleDefaults(gameState')]_vars

\* C5: when start game was the last of start, stop and reset to run since a
\* level-advance callback was scheduled, the firing of that callback changes no
\* session field and raises no error.
C5_StartSupersedesAdvance ==
  [][(TimerFires /\ Head(timers).since = "start") => (gameState' = gameState /\ ~threw')]_vars

\* C6: a pending level-advance callback eventually fires, and when no start,
\* stop or reset ran since it was scheduled, its firing leaves currentLevel at
\* the completed level + 1, the environment at that catalog entry, objectives
\* at that entry's list and the session Playing, with score and lives as they
\* were before the firing.
C6_AdvanceEntersNextLevel ==
  /\ [][(TimerFires /\ Head(timers).since = "none") =>
          /\ ~threw'
          /\ gameState'.currentLevel = Head(timers).from + 1
          /\ gameState'.currentLevel \in 1..Len(environments)
          /\ gameState'.environment = environments[gameState'.currentLevel]
          /\ gameState'.objectives = environments[gameState'.currentLevel].objectives
          /\ gameState'.isPlaying
          /\ gameState'.score = gameState.score
          /\ gameState'.lives = gameState.lives]_vars
  /\ ((timers # << >> /\ lastOp # "timer") ~> (lastOp = "timer"))

\* C6 witness: an undisturbed callback has fired and level 2 is being played.
C6_Witness ==
  /\ lastOp = "timer"
  /\ fired.since = "none"
  /\ gameState.isPlaying
  /\ gameState.currentLevel = 2
  /\ gameState.environment = environments[2]
  /\ gameState.objectives = environments[2].objectives

\* the narration of a rejected move
Edge ==
  [text |-> "You've reached the edge. You cannot go further in this direction."]

\* the narration of a command refused for want of a running game
StartFirst == [text |-> "Please start a game first."]

\* the candidate position of a move command lies outside the active environment
Rejected(gs, command) ==
  /\ gs.isPlaying
  /\ Truthy(gs.environment)
  /\ LET pos == Step(gs.playerPosition, DirectionOf(command))
     IN 2 * Abs(pos.x) > gs.environment.size.x \/ 2 * Abs(pos.z) > gs.environment.size.z

\* C7: a move whose candidate position exceeds a half-extent of the active
\* environment changes no session field (the position is the pre-move value),
\* emits exactly the edge narration and playSound('danger', 0.5), and plays no
\* step sound, moves no listener, and triggers no hint, interaction or snapshot.
C7_RejectedMoveRestores ==
  \A command \in MoveCommands :
    Rejected(gameState, command) =>
      LET r == Run(command)
      IN /\ r.gs = gameState
         /\ r.out.spoken = << Edge >>
         /\ r.out.sounds = << [name |-> "danger", volume |-> 5] >>
         /\ r.out.positional = << >>
         /\ r.out.listener = << >>
         /\ r.timers = timers
         /\ r.status = status
         /\ r.visual = visual

\* C7 witness: the player stands at the +x edge of the forest, where go right
\* is answered with the edge narration.
C7_Witness ==
  /\ gameState.isPlaying
  /\ gameState.environment = environments[1]
  /\ gameState.playerPosition.x = 5
  /\ Run("go right").out.spoken = << Edge >>

\* C8: a command that brings lives down to 0 ends with the session stopped, the
\* status snapshot saying so and the game-over narration spoken; and in a
\* stopped session with lives 0 every move command is refused with the
\* start-a-game-first narration and changes nothing.
C8_GameOverStops ==
  /\ \A command \in Commands :
       LET r == Run(command)
       IN (gameState.lives > 0 /\ r.gs.lives = 0) =>
            /\ ~r.gs.isPlaying
            /\ ~r.status.isPlaying
            /\ \E i \in 1..Len(r.out.spoken) : r.out.spoken[i].text = "Game Over!"
  /\ (gameState.lives = 0 /\ ~gameState.isPlaying) =>
       \A command \in MoveCommands :
         LET r == Run(command)
         IN /\ r.out.spoken = << StartFirst >>
            /\ r.gs = gameState
            /\ r.timers = timers
            /\ r.status = status
            /\ r.visual = visual
            /\ r.music = music

\* C8 witness: the third fall into the pit has just ended the game: lives 0,
\* the player still next to the pit, the session stopped.
C8_Witness ==
  /\ lastOp = "command"
  /\ gameState.lives = 0
  /\ ~gameState.isPlaying
  /\ ~status.isPlaying
  /\ gameState.playerPosition = Vec(-1, 1)
  /\ Run("go left").out.spoken = << StartFirst >>

\* C9: reset game sets score to 0; a move raises it by exactly 100 for each
\* objective it removes plus 500 for each level it completes; every other
\* command (start game and stop game among them) and the firing of a callback
\* leave score as it is.
C9_ScoreSteps ==
  /\ \A command \in Commands :
       LET r == Run(command)
       IN IF command = "reset game" THEN r.gs.score = 0
          ELSE IF command \in MoveCommands
            THEN /\ Len(r.gs.objectives) <= Len(gameState.objectives)
                 /\ r.gs.currentLevel >= gameState.currentLevel
                 /\ r.gs.score = gameState.score
                      + 100 * (Len(gameState.objectives) - Len(r.gs.objectives))
                      + 500 * (r.gs.currentLevel - gameState.currentLevel)
          ELSE r.gs.score = gameState.score
  /\ timers # << >> => Callback.gs.score = gameState.score

\* C9 witness: both levels were completed (two objectives, two completions)
\* and a callback is still pending.
C9_Witness ==
  /\ gameState.score = 1200
  /\ gameState.currentLevel = 3
  /\ timers # << >>

\* the objectives within the interaction radius of the position a move leads to
NearObjectives(gs, command) ==
  { k \in 1..Len(gs.objectives) :
      4 * DistSq(Step(gs.playerPosition, DirectionOf(command)), gs.objectives[k].position) <= 9 }

\* C10: an accepted move that ends within the interaction radius of a remaining
\* objective removes that objective, makes the list exactly one shorter, adds
\* 100 for it (and 500 per level this completes), and the visual snapshot
\* emitted by the move shows the shortened list; and no command other than
\* start game makes the list longer (the level-advance callback, the other
\* level start, is no command).
C10_ObjectiveCollected ==
  \A command \in Commands :
    LET r == Run(command)
    IN /\ (command \in MoveCommands /\ gameState.isPlaying
             /\ ~Rejected(gameState, command) /\ NearObjectives(gameState, command) # {}) =>
            /\ \A k \in NearObjectives(gameState, command) :
                 \A j \in 1..Len(r.gs.objectives) :
                   r.gs.objectives[j] # gameState.objectives[k]
            /\ Len(r.gs.objectives) = Len(gameState.objectives) - 1
            /\ r.gs.score = gameState.score + 100
                 + 500 * (r.gs.currentLevel - gameState.currentLevel)
            /\ r.visual.objectives = r.gs.objectives
            /\ r.visual.playerPosition = r.gs.playerPosition
            /\ Len(r.visual.objectives) = Len(gameState.objectives) - 1
       /\ command # "start game" => Len(r.gs.objectives) <= Len(gameState.objectives)

\* C10 witness: the player stands one step in front of the cave exit, which is
\* still to be collected, and the step forward onto its exact coordinate
\* collects it.
C10_Witness ==
  /\ gameState.isPlaying
  /\ gameState.playerPosition = Vec(0, 5)
  /\ gameState.objectives = environments[2].objectives
  /\ Run("go forward").gs.playerPosition = environments[2].objectives[1].position
  /\ Run("go forward").gs.objectives = << >>
  /\ Run("go forward").visual.objectives = << >>

\* how often the narration with the given text was spoken in a call
Spoken(r, text) ==
  Cardinality({ i \in 1..Len(r.out.spoken) : r.out.spoken[i].text = text })

\* a call empties a non-empty objectives list of a Playing session
Empties(r) ==
  /\ gameState.isPlaying
  /\ gameState.objectives # << >>
  /\ r.gs.objectives = << >>

\* C11: reset game sets currentLevel to 1; a command that empties the
\* objectives list of a Playing session completes the level exactly once (one
\* completion narration, currentLevel + 1, one +500 on top of the +100 of the
\* objective); every other command leaves currentLevel as it is and completes
\* no level, and so does the firing of a callback.
C11_LevelSteps ==
  /\ \A command \in Commands :
       LET r == Run(command)
       IN IF command = "reset game"
          THEN r.gs.currentLevel = 1 /\ Spoken(r, "Level completed!") = 0
          ELSE IF Empties(r)
          THEN /\ command \in MoveCommands
               /\ Spoken(r, "Level completed!") = 1
               /\ r.gs.currentLevel = gameState.currentLevel + 1
               /\ r.gs.score = gameState.score + 100 * Len(gameState.objectives) + 500
          ELSE /\ Spoken(r, "Level completed!") = 0
               /\ r.gs.currentLevel = gameState.currentLevel
  /\ timers # << >> =>
       /\ Callback.gs.currentLevel = gameState.currentLevel
       /\ Spoken(Callback, "Level completed!") = 0

\* C11 witness: the move onto the crystal has just completed level 1.
C11_Witness ==
  /\ lastOp = "command"
  /\ gameState.isPlaying
  /\ gameState.currentLevel = 2
  /\ gameState.score = 600
  /\ gameState.objectives = << >>
  /\ gameState.environment = environments[1]
  /\ timers = << [from |-> 1, since |-> "none"] >>

\* C12: a command speaks the victory narration exactly when it completes a
\* level and thereby raises currentLevel above the number of catalog
\* environments; it then ends with the session stopped (the status snapshot
\* saying so) and schedules no callback.  Every other level completion leaves
\* the session Playing and schedules exactly one callback, for the completed
\* level; a command that completes no level schedules none.
C12_GameWonExactly ==
  \A command \in Commands :
    LET r == Run(command)
        completed == Spoken(r, "Level completed!") = 1
        won == completed /\ r.gs.currentLevel > Len(environments)
    IN /\ Spoken(r, "You've completed all levels!") = (IF won THEN 1 ELSE 0)
       /\ won =>
            /\ ~r.gs.isPlaying
            /\ ~r.status.isPlaying
            /\ Len(r.timers) = Len(timers)
       /\ (completed /\ ~won) =>
            /\ r.gs.isPlaying
            /\ r.status.isPlaying
            /\ r.timers = Append(timers, [from |-> gameState.currentLevel, since |-> "none"])
       /\ Len(r.timers) = Len(timers) + (IF completed /\ ~won THEN 1 ELSE 0)

\* C12 witness: the move onto the cave exit has just completed the last level:
\* the session is stopped at currentLevel 3 and nothing is scheduled.
C12_Witness ==
  /\ lastOp = "command"
  /\ ~gameState.isPlaying
  /\ ~status.isPlaying
  /\ gameState.currentLevel = Len(environments) + 1
  /\ gameState.score = 1200
  /\ gameState.objectives = << >>
  /\ gameState.environment = environments[2]
  /\ timers = << >>

\* the session has ended by life exhaustion or by completing the last level
Terminal(gs) ==
  /\ ~gs.isPlaying
  /\ gs.lives <= 0 \/ gs.currentLevel > Len(environments)

\* C13: in a session ended by game over or game won, start game raises no
\* error and leaves the session Playing with an active environment; in
\* adventure mode that environment is the catalog entry currentLevel, which
\* exists.
C13_StartAfterTerminal ==
  Terminal(gameState) =>
    LET r == Run("start game")
    IN /\ ~r.threw
       /\ r.gs.isPlaying
       /\ Truthy(r.gs.environment)
       /\ r.gs.mode = "adventure" =>
            /\ r.gs.currentLevel \in 1..Len(environments)
            /\ r.gs.environment = environments[r.gs.currentLevel]

\* strings of no vocabulary entry: the keyboard's "toggle voice", a vocabulary
\* entry in another letter case, and the empty string
UnknownStrings == { "toggle voice", "GO LEFT", "" }

\* the session fields a refused or unknown command must leave alone are all of
\* gameState; nothing is scheduled and no snapshot is emitted either
Untouched(r) ==
  /\ r.gs = gameState
  /\ r.timers = timers
  /\ r.status = status
  /\ r.visual = visual
  /\ r.music = music

\* C14: while the session is not Playing, every command outside start game,
\* help, toggle mode and reset game (the four moves, look around, repeat, stop
\* game and unknown strings) is answered with exactly the start-a-game-first
\* narration and leaves every session field as it is.
C14_RefusedWhileNotPlaying ==
  ~gameState.isPlaying =>
    \A command \in (Commands \cup UnknownStrings) \ { "start game", "help", "toggle mode", "reset game" } :
      LET r == Run(command)
      IN /\ r.out.spoken = << StartFirst >>
         /\ r.out.sounds = << >>
         /\ Untouched(r)

\* C14 witness: a stopped adventure session that still has its environment and
\* its objective, where stop game is answered with the refusal.
C14_Witness ==
  /\ lastOp = "command"
  /\ ~gameState.isPlaying
  /\ gameState.environment = environments[1]
  /\ gameState.objectives = environments[1].objectives
  /\ gameState.playerPosition # Vec(0, 0)
  /\ Run("stop game").out.spoken = << StartFirst >>

\* C15: while the session is Playing, a string outside the vocabulary is
\* answered with exactly one narration and one log entry that carry the
\* string, after the entry that processCommand logs for every command, and
\* leaves every session field as it is.
C15_UnknownCommandEchoed ==
  gameState.isPlaying =>
    \A command \in UnknownStrings :
      LET r == Run(command)
      IN /\ command \notin Vocabulary
         /\ r.out.spoken = << [text |-> "I didn't understand", command |-> command] >>
         /\ r.out.logs = << [text |-> "Processing", command |-> command],
                            [text |-> "Unknown command", command |-> command] >>
         /\ r.out.sounds = << >>
         /\ Untouched(r)

\* C15 witness: a running adventure session away from the origin, one life
\* lost, where "toggle voice" is echoed as not understood.
C15_Witness ==
  /\ gameState.isPlaying
  /\ gameState.mode = "adventure"
  /\ gameState.lives = 2
  /\ gameState.playerPosition = Vec(2, 0)
  /\ Run("toggle voice").out.spoken =
       << [text |-> "I didn't understand", command |-> "toggle voice"] >>

OtherMode(mode) == IF mode = "practice" THEN "adventure" ELSE "practice"

\* C16: while the session is not Playing, toggle mode flips mode, speaks the
\* switch, reports the new mode in the status snapshot and changes no other
\* field; while Playing it is answered with exactly the refusal and changes
\* nothing; and no command changes mode while the session is Playing.
C16_ToggleMode ==
  /\ LET r == Run("toggle mode")
     IN IF gameState.isPlaying
        THEN /\ r.out.spoken =
                  << [text |-> "Please stop the current game before changing modes."] >>
             /\ Untouched(r)
        ELSE /\ r.gs = [gameState EXCEPT !.mode = OtherMode(gameState.mode)]
             /\ r.out.spoken = << [text |-> "Switched mode.", mode |-> OtherMode(gameState.mode)] >>
             /\ r.status = StatusOf(r.gs)
             /\ r.timers = timers
             /\ r.visual = visual
             /\ r.music = music
  /\ gameState.isPlaying =>
       \A command \in Commands \cup UnknownStrings : Run(command).gs.mode = gameState.mode

\* C16 witness: a stopped session that was played in adventure mode (it still
\* holds the forest) has been switched to practice, and toggle mode would
\* switch it back.
C16_Witness ==
  /\ lastOp = "command"
  /\ ~gameState.isPlaying
  /\ gameState.mode = "practice"
  /\ status.mode = "practice"
  /\ gameState.environment = environments[1]
  /\ Run("toggle mode").gs.mode = "adventure"

\* C17: start game, whatever the phase, leaves the session Playing at the
\* origin with heading (0,0,1); in adventure mode the environment is the
\* catalog entry currentLevel and objectives is that entry's full list; in
\* practice mode the environment is the practice room; score, lives and
\* currentLevel are as before.
C17_StartGame ==
  LET r == Run("start game")
  IN /\ r.gs.isPlaying
     /\ r.gs.playerPosition = Vec(0, 0)
     /\ r.gs.playerDirection = Vec(0, 1)
     /\ r.gs.mode = gameState.mode
     /\ r.gs.mode = "adventure" =>
          /\ r.gs.currentLevel \in 1..Len(environments)
          /\ r.gs.environment = environments[r.gs.currentLevel]
          /\ r.gs.objectives = environments[r.gs.currentLevel].objectives
     /\ r.gs.mode = "practice" => r.gs.environment = PracticeRoom
     /\ r.gs.score = gameState.score
     /\ r.gs.lives = gameState.lives
     /\ r.gs.currentLevel = gameState.currentLevel

\* C18: start game in practice mode leaves the session Playing in the practice
\* room with an empty objectives list.
C18_PracticeStartsEmpty ==
  gameState.mode = "practice" =>
    LET r == Run("start game")
    IN /\ r.gs.isPlaying
       /\ r.gs.environment = PracticeRoom
       /\ r.gs.objectives = << >>

\* the objective list the catalog defines for an environment
ObjectivesOf(env) ==
  IF Truthy(env) /\ "objectives" \in DOMAIN env THEN env.objectives ELSE << >>

\* C19: every objective in the session's list is an objective the active
\* environment defines; the list is empty when the active environment defines
\* none or when no environment is active.
C19_ObjectivesOfEnvironment ==
  \A k \in 1..Len(gameState.objectives) :
    \E j \in 1..Len(ObjectivesOf(gameState.environment)) :
      ObjectivesOf(gameState.environment)[j] = gameState.objectives[k]

\* C20: reset game, whatever the phase, leaves isPlaying false, score 0, lives
\* 3, currentLevel 1, the player at the origin, environment null and
\* objectives empty, and mode as it was; the snapshots show the same and the
\* ambient loop is halted.
C20_ResetGame ==
  LET r == Run("reset game")
  IN /\ IdleDefaults(r.gs)
     /\ r.gs.playerPosition = Vec(0, 0)
     /\ r.gs.playerDirection = Vec(0, 1)
     /\ r.gs.mode = gameState.mode
     /\ r.status = StatusOf(r.gs)
     /\ r.visual.environment = Null
     /\ r.visual.objectives = << >>
     /\ ~r.music
     /\ Spoken(r, "Game reset. Ready for a new adventure!") = 1

\* C20 witness: an adventure session has been reset after level 1 was
\* completed, while the callback of that completion was pending.
C20_Witness ==
  /\ lastOp = "command"
  /\ IdleDefaults(gameState)
  /\ gameState.playerPosition = Vec(0, 0)
  /\ gameState.mode = "adventure"
  /\ visual.environment = Null
  /\ timers = << [from |-> 1, since |-> "reset"] >>

\* the hazards of the active environment within the interaction radius of the
\* position a move leads to
NearHazards(gs, command) ==
  LET hazards == IF Truthy(gs.environment) /\ "hazards" \in DOMAIN gs.environment
                 THEN gs.environment.hazards ELSE << >>
  IN { k \in 1..Len(hazards) :
         4 * DistSq(Step(gs.playerPosition, DirectionOf(command)), hazards[k].position) <= 9 }

\* an accepted move that ends within the interaction radius of a hazard
HitsHazard(command) ==
  /\ command \in MoveCommands
  /\ gameState.isPlaying
  /\ ~Rejected(gameState, command)
  /\ NearHazards(gameState, command) # {}

\* C21: an accepted move that ends within the interaction radius of a hazard
\* lowers lives by exactly 1; when lives is still above 0 the player is back at
\* the origin and the session goes on, otherwise the game is over; the
\* environment and its hazard list are as before, so the same holds for every
\* later such move.  No other command lowers lives, and neither does the
\* firing of a callback.
C21_HazardPenalty ==
  /\ \A command \in Commands \cup UnknownStrings :
       LET r == Run(command)
       IN IF HitsHazard(command)
          THEN /\ r.gs.lives = gameState.lives - 1
               /\ r.gs.environment = gameState.environment
               /\ IF r.gs.lives > 0
                  THEN /\ r.gs.playerPosition = Vec(0, 0)
                       /\ r.gs.isPlaying
                       /\ Spoken(r, "lives remaining") = 1
                       /\ Spoken(r, "Game Over!") = 0
                  ELSE /\ ~r.gs.isPlaying
                       /\ Spoken(r, "Game Over!") = 1
          ELSE /\ r.gs.lives >= gameState.lives
               /\ command # "reset game" => r.gs.lives = gameState.lives
               /\ Spoken(r, "Oh no! You encountered") = 0
  /\ timers # << >> => Callback.gs.lives = gameState.lives

\* C21 witness: the pit has been met twice (lives 1) and the player is again
\* one step away from its radius: the step forward meets it a third time.
C21_Witness ==
  /\ gameState.isPlaying
  /\ gameState.lives = 1
  /\ gameState.playerPosition = Vec(-1, 0)
  /\ gameState.environment = environments[1]
  /\ HitsHazard("go forward")
  /\ Run("go forward").gs.lives = 0
  /\ ~Run("go forward").gs.isPlaying

\* C22: the catalog is always what initializeEnvironments built, and start
\* game in adventure mode at a level of the catalog presents that entry's full
\* original objective list, also when objectives of that level were collected
\* before.
C22_CatalogUnchanged ==
  /\ catalog = environments
  /\ \A command \in Commands \cup UnknownStrings : Run(command).catalog = environments
  /\ timers # << >> => Callback.catalog = environments
  /\ (gameState.mode = "adventure" /\ gameState.currentLevel \in 1..Len(environments)) =>
       Run("start game").gs.objectives = environments[gameState.currentLevel].objectives

\* C22 witness: level 1 was completed (its callback is still pending), the
\* session was reset and started again: level 1 is played a second time with
\* the crystal in its list.
C22_Witness ==
  /\ lastOp = "command"
  /\ gameState.isPlaying
  /\ gameState.currentLevel = 1
  /\ gameState.score = 0
  /\ gameState.objectives = environments[1].objectives
  /\ catalog[1].objectives = environments[1].objectives
  /\ timers = << [from |-> 1, since |-> "start"] >>

\* an accepted move that ends within the interaction radius of a remaining
\* objective
HitsObjective(command) ==
  /\ command \in MoveCommands
  /\ gameState.isPlaying
  /\ ~Rejected(gameState, command)
  /\ NearObjectives(gameState, command) # {}

\* C23: the payload of the last onVisualUpdate call keeps its contents while
\* the interactions of an accepted move remove an objective, that is, from the
\* step of the move up to the snapshot movePlayer emits at its end (the
\* interactions themselves emit no visual snapshot).
C23_SnapshotIsCopy ==
  \A command \in MoveCommands :
    HitsObjective(command) =>
      LET moved == [Pack EXCEPT !.gs.playerPosition =
                                   Step(gameState.playerPosition, DirectionOf(command))]
      IN checkForInteractions(moved).visual = visual

\* C24: between steps the payload of the last onVisualUpdate call shows the
\* engine's position, environment and objectives, after a start, a move, an
\* interaction, a reset and after the level-advance callback alike.
C24_SnapshotAgrees ==
  /\ visual.playerPosition = gameState.playerPosition
  /\ visual.environment = gameState.environment
  /\ visual.objectives = gameState.objectives

\* C25: look around and help, in every phase, leave score, lives,
\* currentLevel, playerPosition, environment and objectives (and every other
\* session field, the snapshots and the pending callbacks) as they are, so any
\* number of them in sequence does.
C25_LookAndHelpReadOnly ==
  \A command \in { "look around", "help" } :
    LET r == Run(command)
    IN /\ r.gs.score = gameState.score
       /\ r.gs.lives = gameState.lives
       /\ r.gs.currentLevel = gameState.currentLevel
       /\ r.gs.playerPosition = gameState.playerPosition
       /\ r.gs.environment = gameState.environment
       /\ r.gs.objectives = gameState.objectives
       /\ Untouched(r)

\* C25 witness: a running level 1 with one life lost and the player two steps
\* from the crystal, where look around finds it nearby and help is answered.
C25_Witness ==
  /\ gameState.isPlaying
  /\ gameState.lives = 2
  /\ gameState.playerPosition = Vec(2, 2)
  /\ gameState.objectives = environments[1].objectives
  /\ Run("look around").out.sounds = << [name |-> "echo", volume |-> 5] >>
  /\ Spoken(Run("help"), "Available commands:") = 1

\* C26: stop game in a Playing session ends with the session stopped, the
\* ambient loop halted and every other session field as it was; and in a
\* session that is not Playing no command other than start game, reset game
\* and toggle mode changes a session field, nor does the firing of a callback
\* that a stop has preceded.
C26_StopGame ==
  /\ gameState.isPlaying =>
       LET r == Run("stop game")
       IN /\ r.gs = [gameState EXCEPT !.isPlaying = FALSE]
          /\ ~r.status.isPlaying
          /\ ~r.music
  /\ ~gameState.isPlaying =>
       /\ \A command \in (Commands \cup UnknownStrings) \ { "start game", "reset game", "toggle mode" } :
            Run(command).gs = gameState
       /\ (timers # << >> /\ Head(timers).since = "stop") => Callback.gs = gameState

\* C27: when a command has left the session Playing and has spoken at least
\* one narration, a repeat processed next speaks exactly the text of the
\* narration spoken last.
C27_RepeatSpeaksLast ==
  \A command \in Commands :
    LET r1 == Run(command)
        r2 == processCommand([r1 EXCEPT !.out = NoOut], "repeat")
    IN (r1.gs.isPlaying /\ r1.out.spoken # << >>) =>
         /\ Len(r2.out.spoken) = 1
         /\ r2.out.spoken[1].text = r1.out.spoken[Len(r1.out.spoken)].text

\* C28: while mode is practice, no command other than reset game changes
\* lives or score or triggers an objective or hazard interaction, and no
\* firing of a callback changes lives or score.
C28_PracticeIsSafe ==
  gameState.mode = "practice" =>
    /\ \A command \in (Commands \cup UnknownStrings) \ { "reset game" } :
         LET r == Run(command)
         IN /\ r.gs.lives = gameState.lives
            /\ r.gs.score = gameState.score
            /\ Spoken(r, "Oh no! You encountered") = 0
            /\ Spoken(r, "Congratulations! You found") = 0
    /\ timers # << >> =>
         /\ Callback.gs.lives = gameState.lives
         /\ Callback.gs.score = gameState.score

\* the hazards of the environment of gs
HazardList(gs) ==
  IF Truthy(gs.environment) /\ "hazards" \in DOMAIN gs.environment
  THEN gs.environment.hazards ELSE << >>

\* the positional sounds a call requested, as a set
Positional(r) == { r.out.positional[i] : i \in 1..Len(r.out.positional) }

\* C29: after an accepted move to pos, with d the distance from pos to an
\* item, an objective of the list is collected iff d <= 1.5 and otherwise
\* hinted at volume 0.3 iff d <= 3; a hazard of the environment is met iff
\* d <= 1.5 and otherwise warned of at volume 0.4 iff d <= 2; a move with
\* hints and warnings only changes nothing but the position.  A rejected move
\* and every command that is no move request no positional sound and trigger
\* no interaction.
C29_InteractionRadii ==
  \A command \in Commands \cup UnknownStrings :
    LET r == Run(command)
    IN IF command \in MoveCommands /\ gameState.isPlaying /\ ~Rejected(gameState, command)
       THEN LET pos == Step(gameState.playerPosition, DirectionOf(command))
                objs == gameState.objectives
                hazs == HazardList(gameState)
                D4(item) == 4 * DistSq(pos, item.position)
                got == { k \in 1..Len(objs) : D4(objs[k]) <= 9 }
                hinted == { k \in 1..Len(objs) : D4(objs[k]) > 9 /\ D4(objs[k]) <= 36 }
                met == { k \in 1..Len(hazs) : D4(hazs[k]) <= 9 }
                warned == { k \in 1..Len(hazs) : D4(hazs[k]) > 9 /\ D4(hazs[k]) <= 16 }
            IN /\ Spoken(r, "Congratulations! You found") = Cardinality(got)
               /\ Spoken(r, "Oh no! You encountered") = Cardinality(met)
               /\ Positional(r) =
                    { [kind |-> "objective", index |-> k - 1, volume |-> 3] : k \in hinted }
                      \cup { [kind |-> "hazard", index |-> k - 1, volume |-> 4] : k \in warned }
               /\ Len(r.out.positional) = Cardinality(hinted) + Cardinality(warned)
               /\ (got = {} /\ met = {}) =>
                    /\ r.gs = [gameState EXCEPT !.playerPosition = pos]
                    /\ Len(r.timers) = Len(timers)
       ELSE /\ r.out.positional = << >>
            /\ Spoken(r, "Congratulations! You found") = 0
            /\ Spoken(r, "Oh no! You encountered") = 0

\* C29 witness: in level 1 the step forward from (0,1) ends at (0,2), exactly
\* 2 units from the pit at (-2,2): a warning at volume 0.4 and nothing else.
C29_Witness ==
  /\ gameState.isPlaying
  /\ gameState.environment = environments[1]
  /\ gameState.playerPosition = Vec(0, 1)
  /\ Run("go forward").out.positional = << [kind |-> "hazard", index |-> 0, volume |-> 4] >>
  /\ Run("go forward").gs.lives = gameState.lives

\* the coordinate change of a move command
Delta(command) ==
  CASE command = "go left" -> Vec(-1, 0)
    [] command = "go right" -> Vec(1, 0)
    [] command = "go forward" -> Vec(0, 1)
    [] command = "go back" -> Vec(0, -1)

Opposite(command) ==
  CASE command = "go left" -> "go right"
    [] command = "go right" -> "go left"
    [] command = "go forward" -> "go back"
    [] command = "go back" -> "go forward"

\* a move command that is accepted and meets no hazard
PlainMove(gs, command) ==
  /\ gs.isPlaying
  /\ ~Rejected(gs, command)
  /\ NearHazards(gs, command) = {}

\* C30: an accepted move that meets no hazard ends at the old position with
\* exactly one coordinate changed by one unit (go left x-1, go right x+1, go
\* forward z+1, go back z-1); and a move followed by its opposite, both
\* accepted and meeting no hazard, ends at the position it started from.
C30_UnitStep ==
  \A command \in MoveCommands :
    LET r1 == Run(command)
        r2 == processCommand([r1 EXCEPT !.out = NoOut], Opposite(command))
    IN PlainMove(gameState, command) =>
         /\ r1.gs.playerPosition = Vec(gameState.playerPosition.x + Delta(command).x,
                                       gameState.playerPosition.z + Delta(command).z)
         /\ PlainMove(r1.gs, Opposite(command)) =>
              r2.gs.playerPosition = gameState.playerPosition

\* C30 witness: in the caves at (-2,2), where go left leads to (-3,2) and go
\* right back from there.
C30_Witness ==
  /\ gameState.isPlaying
  /\ gameState.environment = environments[2]
  /\ gameState.playerPosition = Vec(-2, 2)
  /\ PlainMove(gameState, "go left")
  /\ Run("go left").gs.playerPosition = Vec(-3, 2)
  /\ PlainMove(Run("go left").gs, "go right")

\* the objectives of a list outside the interaction radius of pos, in list order
OutOfReach(objs, pos) ==
  SelectSeq(objs, LAMBDA o : 4 * DistSq(pos, o.position) > 9)

\* the texts of the narrations of a call that name a found objective, in the
\* order they were spoken
FoundNarrated(r) ==
  LET found == SelectSeq(r.out.spoken, LAMBDA n : n.text = "Congratulations! You found")
  IN [i \in 1..Len(found) |-> found[i].description]

C32_KeysInVocabulary ==
  \A code \in KeyCodes :
    \A i \in 1..Len(keydown(code)) :
      /\ keydown(code)[i] \in Vocabulary
      /\ Spoken(Run(keydown(code)[i]), "I didn't understand") = 0

\* some key of commandMap equals the transcript or occurs in it
KeywordMatches(transcript) ==
  \E k \in 1..Len(commandMap) :
    commandMap[k].key = transcript \/ Includes(transcript, commandMap[k].key)

\* C33: in every state, for every transcript, the normalizer delivers exactly
\* one command and the engine processes it: an entry of the vocabulary when a
\* keyword matches, and the transcript itself otherwise.
C33_OneCommandPerTranscript ==
  \A transcript \in Transcripts :
    LET delivered == processVoiceCommand(transcript)
    IN /\ Len(delivered) = 1
       /\ Run(delivered[1]).lastCommand = delivered[1]
       /\ IF KeywordMatches(transcript)
          THEN delivered[1] \in Vocabulary
          ELSE delivered[1] = transcript

\* C34: after every processCommand call, from any reachable state, the last
\* status snapshot emitted (the defaults if none was) equals the engine's
\* mode, isPlaying, score, lives and currentLevel.
C34_StatusAgrees ==
  \A command \in Commands :
    LET r == Run(command)
    IN r.status = StatusOf(r.gs)

\* C35: after every processCommand call, from any reachable state, the
\* ambient loop is requested to play if and only if the session is Playing.
C35_MusicIffPlaying ==
  \A command \in Commands :
    LET r == Run(command)
    IN r.music <=> r.gs.isPlaying

\* C36: after every user action (button, keyboard or voice command) the mode
\* the page shows is the engine's mode, and a game started by a start game
\* command runs in the mode the page showed when the command was given.
C36_PageModeIsEngineMode ==
  /\ lastOp \in {"command", "button"} => page.mode = gameState.mode
  /\ LET r == Run("start game")
     IN ~r.threw => r.gs.mode = page.mode

\* C37: whenever the engine is Playing with an environment, the page shows the
\* map: its gameStarted flag is set and it holds an environment to draw.
C37_PlayingShowsMap ==
  gameState.isPlaying /\ Truthy(gameState.environment) => ShowsMap

====
